---- MODULE Spec2Model ----
(***************************************************************************)
(* Model of the price-comparison search gateway: the /search/local and    *)
(* /search/global route handlers, CacheService, SearchService and         *)
(* MockDataService.                                                        *)
(*                                                                         *)
(* Conventions                                                             *)
(*   - free text (query, shop, brand, category, listing name) is a        *)
(*     sequence of UTF-16 code units; enum values are TLA+ strings and    *)
(*     are spelled out by Text(_) where the code interpolates them;       *)
(*   - an optional value is None (absent / undefined) or Some(v);         *)
(*   - money is an integer number of thousandths of a currency unit, so   *)
(*     that 10 %, 17 %, 30 % and 70 % of a whole-unit base price are      *)
(*     exact (the code computes in IEEE doubles; rounding error of the    *)
(*     doubles is not modelled);                                           *)
(*   - a 32-bit hash value is the pair <<hi, lo>> of its 16-bit halves.   *)
(***************************************************************************)
EXTENDS Integers, Sequences, FiniteSets, TLC

VARIABLES
    products,     \* MockDataService.products / the index documents, in insertion order
    useMockData,  \* fastify.config.useMockData
    cache,        \* the redis store: the set of [key, value] entries
    pc,           \* per client: position of its handler
    req,          \* per client: the request body being served, then searchRequest
    cacheKey,     \* per client: const cacheKey of the handler
    response,     \* per client: what reply.send was given
    trace,        \* per client: the collaborator calls of the current request, in order
    started,      \* number of requests started so far
    workload,     \* the request bodies this run draws from
    writer,       \* history: per cache key, the key string of the request that wrote it
    fnCall,       \* FnSpec: the operation applied and its arguments
    fnOut         \* FnSpec: its result

vars == <<products, useMockData, cache, pc, req, cacheKey, response, trace,
          started, workload, writer, fnCall, fnOut>>

(***************************************************************************)
(* Optional values                                                         *)
(***************************************************************************)
None == <<>>
Some(v) == <<v>>
IsSome(o) == Len(o) = 1
Get(o) == o[1]

(***************************************************************************)
(* Strings as sequences of code units                                      *)
(***************************************************************************)
RECURSIVE Concat(_)
Concat(ss) == IF ss = <<>> THEN <<>> ELSE Head(ss) \o Concat(Tail(ss))

\* Array.prototype.join(sep)
RECURSIVE Join(_, _)
Join(ss, sep) ==
    IF ss = <<>> THEN <<>>
    ELSE IF Len(ss) = 1 THEN ss[1]
    ELSE ss[1] \o sep \o Join(Tail(ss), sep)

\* String.prototype.toLowerCase, on the ASCII letters
LowerChar(c) == IF c >= 65 /\ c <= 90 THEN c + 32 ELSE c
toLowerCase(s) == [i \in 1..Len(s) |-> LowerChar(s[i])]

\* String.prototype.trim: white space is stripped from both ends
IsSpace(c) == c \in {9, 10, 11, 12, 13, 32}
RECURSIVE TrimStart(_)
TrimStart(s) == IF s # <<>> /\ IsSpace(Head(s)) THEN TrimStart(Tail(s)) ELSE s
RECURSIVE TrimEnd(_)
TrimEnd(s) ==
    IF s # <<>> /\ IsSpace(s[Len(s)]) THEN TrimEnd(SubSeq(s, 1, Len(s) - 1)) ELSE s
\* white space stripped from the start only
trimStartOnly(s) == TrimStart(s)
trim(s) == TrimEnd(TrimStart(s))

\* String(n) of a natural number: its decimal digits
RECURSIVE NumToStr(_)
NumToStr(n) == IF n < 10 THEN <<48 + n>> ELSE NumToStr(n \div 10) \o <<48 + (n % 10)>>

\* money: thousandths of a unit
Units(n) == n * 1000
\* String(x) of an amount: the integer part, then the fraction without trailing zeros
RECURSIVE StripZeros(_)
StripZeros(s) == IF s # <<>> /\ s[Len(s)] = 48 THEN StripZeros(SubSeq(s, 1, Len(s) - 1)) ELSE s
MoneyToStr(m) ==
    LET whole == m \div 1000
        frac  == m % 1000
        digits == <<48 + (frac \div 100), 48 + ((frac \div 10) % 10), 48 + (frac % 10)>>
    IN  IF frac = 0 THEN NumToStr(whole) ELSE NumToStr(whole) \o <<46>> \o StripZeros(digits)

\* a < b in the order of Array.prototype.sort() without comparator (code units)
RECURSIVE StrLess(_, _)
StrLess(a, b) ==
    IF b = <<>> THEN FALSE
    ELSE IF a = <<>> THEN TRUE
    ELSE IF Head(a) # Head(b) THEN Head(a) < Head(b)
    ELSE StrLess(Tail(a), Tail(b))

\* String.prototype.includes
RECURSIVE IsPrefix(_, _)
IsPrefix(p, s) ==
    IF p = <<>> THEN TRUE
    ELSE IF s = <<>> THEN FALSE
    ELSE Head(p) = Head(s) /\ IsPrefix(Tail(p), Tail(s))
RECURSIVE includes(_, _)
includes(s, sub) ==
    IF IsPrefix(sub, s) THEN TRUE
    ELSE IF s = <<>> THEN FALSE
    ELSE includes(Tail(s), sub)

\* Array.prototype.sort() of an array of strings
RECURSIVE InsertSorted(_, _)
InsertSorted(x, ss) ==
    IF ss = <<>> THEN <<x>>
    ELSE IF StrLess(x, Head(ss)) THEN <<x>> \o ss
    ELSE <<Head(ss)>> \o InsertSorted(x, Tail(ss))
SortStringsKeepOrder(ss) == ss
RECURSIVE SortStrings(_)
SortStrings(ss) ==
    IF ss = <<>> THEN <<>> ELSE InsertSorted(Head(ss), SortStrings(Tail(ss)))

\* the spelling of the enum values and booleans the code interpolates
Text(v) ==
    CASE v = "relevance"  -> <<114, 101, 108, 101, 118, 97, 110, 99, 101>>
      [] v = "price_asc"  -> <<112, 114, 105, 99, 101, 95, 97, 115, 99>>
      [] v = "price_desc" -> <<112, 114, 105, 99, 101, 95, 100, 101, 115, 99>>
      [] v = "rating"     -> <<114, 97, 116, 105, 110, 103>>
      [] v = "newest"     -> <<110, 101, 119, 101, 115, 116>>
      [] v = "IL"         -> <<73, 76>>
      [] v = "US"         -> <<85, 83>>
      [] v = "UK"         -> <<85, 75>>
      [] v = "DE"         -> <<68, 69>>
      [] v = "FR"         -> <<70, 82>>
BoolText(b) == IF b THEN <<116, 114, 117, 101>> ELSE <<102, 97, 108, 115, 101>>

(***************************************************************************)
(* CacheService.simpleHash: hash = (hash * 33) ^ charCode on int32, then   *)
(* (hash >>> 0).toString(16)                                               *)
(***************************************************************************)
HashSeed == 5381
HashMultiplier == 33
Half == 256 * 256

RECURSIVE BitXor(_, _)
BitXor(a, b) ==
    IF a = 0 THEN b
    ELSE IF b = 0 THEN a
    ELSE ((a + b) % 2) + 2 * BitXor(a \div 2, b \div 2)

\* (hash * 33) ^ c, modulo 2^32; c is a 16-bit code unit
HashStep(h, c) ==
    LET lo33 == h[2] * HashMultiplier
        hi33 == h[1] * HashMultiplier + (lo33 \div Half)
    IN  <<hi33 % Half, BitXor(lo33 % Half, c)>>

\* the loop of lines 253-255, from hash h (over the halves of str, one after
\* the other, which keeps the evaluation shallow)
RECURSIVE HashFrom(_, _)
HashFrom(h, str) ==
    IF str = <<>> THEN h
    ELSE IF Len(str) = 1 THEN HashStep(h, str[1])
    ELSE LET mid  == Len(str) \div 2
             left == HashFrom(h, SubSeq(str, 1, mid))
         IN  IF left[1] >= 0 THEN HashFrom(left, SubSeq(str, mid + 1, Len(str))) ELSE left

HexDigit(d) == IF d < 10 THEN 48 + d ELSE 87 + d
RECURSIVE HexNat(_)
HexNat(n) == IF n < 16 THEN <<HexDigit(n)>> ELSE HexNat(n \div 16) \o <<HexDigit(n % 16)>>
RECURSIVE PadLeft(_, _)
PadLeft(s, n) == IF Len(s) >= n THEN s ELSE PadLeft(<<48>> \o s, n)
\* Number.prototype.toString(16) of the unsigned 32-bit value
ToHex(h) == IF h[1] = 0 THEN HexNat(h[2]) ELSE HexNat(h[1]) \o PadLeft(HexNat(h[2]), 4)

simpleHash(str) == ToHex(HashFrom(<<0, HashSeed>>, str))

(***************************************************************************)
(* CacheService.buildSearchCacheKey                                        *)
(***************************************************************************)
CACHE_PREFIXES ==
    [SEARCH_LOCAL  |-> <<115, 101, 97, 114, 99, 104, 58, 108, 111, 99, 97, 108, 58>>,
     SEARCH_GLOBAL |-> <<115, 101, 97, 114, 99, 104, 58, 103, 108, 111, 98, 97, 108, 58>>]

DefaultPage == 1
DefaultPerPage == 20

\* the literal pieces of the key string
Tok ==
    [page       |-> <<112, 97, 103, 101, 58>>,
     per_page   |-> <<112, 101, 114, 95, 112, 97, 103, 101, 58>>,
     sort       |-> <<115, 111, 114, 116, 58>>,
     country    |-> <<99, 111, 117, 110, 116, 114, 121, 58>>,
     min_price  |-> <<109, 105, 110, 95, 112, 114, 105, 99, 101, 58>>,
     max_price  |-> <<109, 97, 120, 95, 112, 114, 105, 99, 101, 58>>,
     in_stock   |-> <<105, 110, 95, 115, 116, 111, 99, 107, 58>>,
     shops      |-> <<115, 104, 111, 112, 115, 58>>,
     categories |-> <<99, 97, 116, 101, 103, 111, 114, 105, 101, 115, 58>>,
     brands     |-> <<98, 114, 97, 110, 100, 115, 58>>,
     min_rating |-> <<109, 105, 110, 95, 114, 97, 116, 105, 110, 103, 58>>,
     comma      |-> <<44>>,
     bar        |-> <<124>>]

\* x?.length is truthy
NonEmptyArray(o) == IsSome(o) /\ Len(Get(o)) > 0

\* `field:${value}` for an optional field: no token when the field is absent
OptToken(tok, o, str) == IF IsSome(o) THEN <<tok \o str>> ELSE <<>>
ArrayToken(tok, o) ==
    IF NonEmptyArray(o) THEN <<tok \o Join(SortStrings(Get(o)), Tok.comma)>> ELSE <<>>

\* the keyParts array of lines 154-194
keyParts(request) ==
    <<toLowerCase(trim(request.query)),
      Tok.page \o NumToStr(IF request.page = 0 THEN DefaultPage ELSE request.page),
      Tok.per_page \o NumToStr(IF request.per_page = 0 THEN DefaultPerPage ELSE request.per_page),
      Tok.sort \o Text(request.sort_by)>>
    \o (IF IsSome(request.country) THEN <<Tok.country \o Text(Get(request.country))>> ELSE <<>>)
    \o (IF IsSome(request.user_country)
          THEN <<Tok.country \o Text(Get(request.user_country))>> ELSE <<>>)
    \o (IF IsSome(request.filters)
          THEN LET f == Get(request.filters) IN
               OptToken(Tok.min_price, f.min_price,
                        IF IsSome(f.min_price) THEN MoneyToStr(Get(f.min_price)) ELSE <<>>)
            \o OptToken(Tok.max_price, f.max_price,
                        IF IsSome(f.max_price) THEN MoneyToStr(Get(f.max_price)) ELSE <<>>)
            \o OptToken(Tok.in_stock, f.in_stock,
                        IF IsSome(f.in_stock) THEN BoolText(Get(f.in_stock)) ELSE <<>>)
            \o ArrayToken(Tok.shops, f.shops)
            \o ArrayToken(Tok.categories, f.categories)
            \o ArrayToken(Tok.brands, f.brands)
            \o OptToken(Tok.min_rating, f.min_rating,
                        IF IsSome(f.min_rating) THEN NumToStr(Get(f.min_rating)) ELSE <<>>)
          ELSE <<>>)

keyString(request) == Join(keyParts(request), Tok.bar)

buildSearchCacheKey(type, request) ==
    (IF type = "local" THEN CACHE_PREFIXES.SEARCH_LOCAL ELSE CACHE_PREFIXES.SEARCH_GLOBAL)
    \o simpleHash(keyString(request))

\* the request had buildSearchCacheKey sorted copies of the arrays
SortedInPlaceOnCopies(request) == request

\* the request after buildSearchCacheKey: sort() sorted its filter arrays in place
SortArrayInPlace(o) == IF NonEmptyArray(o) THEN Some(SortStrings(Get(o))) ELSE o
SortedInPlace(request) ==
    IF IsSome(request.filters)
      THEN LET f == Get(request.filters) IN
           [request EXCEPT !.filters =
               Some([f EXCEPT !.shops = SortArrayInPlace(f.shops),
                              !.categories = SortArrayInPlace(f.categories),
                              !.brands = SortArrayInPlace(f.brands)])]
      ELSE request

(***************************************************************************)
(* Listings (Product) and the JavaScript idioms the services use on them   *)
(***************************************************************************)
\* x.pricing.international?.total_landed_cost || x.pricing.base.amount
HasLandedCost(p) ==
    IsSome(p.pricing.international) /\ Get(p.pricing.international).total_landed_cost # 0
CostKey(p) ==
    IF HasLandedCost(p) THEN Get(p.pricing.international).total_landed_cost
    ELSE p.pricing.base.amount

\* a number option used as a condition: present and not 0
Truthy(o) == IsSome(o) /\ Get(o) # 0
\* o || d
OrElse(o, d) == IF Truthy(o) THEN Get(o) ELSE d

Min(a, b) == IF a < b THEN a ELSE b

\* Array.prototype.slice(start, end)
Slice(s, start, end) == SubSeq(s, start + 1, Min(end, Len(s)))

\* Array.prototype.sort(compare) with compare(a, b) = key(a) - key(b), keys[i]
\* being the key of s[i].  The sort is stable: x goes after every element whose key is not greater than its own.
RECURSIVE InsertStable(_, _)
InsertStable(x, sorted) ==
    IF sorted = <<>> THEN <<x>>
    ELSE IF x[1] < Head(sorted)[1] THEN <<x>> \o sorted
    ELSE <<Head(sorted)>> \o InsertStable(x, Tail(sorted))
RECURSIVE SortFrom(_, _)
SortFrom(done, rest) ==
    IF rest = <<>> THEN done ELSE SortFrom(InsertStable(Head(rest), done), Tail(rest))
SortByKeys(s, keys) ==
    LET keyed  == [i \in 1..Len(s) |-> <<keys[i], s[i]>>]
        sorted == SortFrom(<<>>, keyed)
    IN  [i \in 1..Len(s) |-> sorted[i][2]]

(***************************************************************************)
(* SearchService: filters, sort order, pagination                          *)
(***************************************************************************)
Clause(attr, op, val) == [attr |-> attr, op |-> op, val |-> val]

\* the clauses both buildLocalFilters and buildGlobalFilters push for the user filters
PriceClauses(filters) ==
       (IF IsSome(filters.min_price)
          THEN <<Clause("pricing.base.amount", ">=", Get(filters.min_price))>> ELSE <<>>)
    \o (IF IsSome(filters.max_price)
          THEN <<Clause("pricing.base.amount", "<=", Get(filters.max_price))>> ELSE <<>>)
StockClauses(filters) ==
    IF filters.in_stock = Some(TRUE) THEN <<Clause("availability", "=", "in_stock")>> ELSE <<>>
\* (attr = "a" OR attr = "b" ...)
AnyOfClauses(attr, o) == IF NonEmptyArray(o) THEN <<Clause(attr, "anyOf", Get(o))>> ELSE <<>>
RatingClauses(o) == IF IsSome(o) THEN <<Clause("rating", ">=", Get(o))>> ELSE <<>>

buildLocalFiltersNoCountry(filters, country) ==
       <<Clause("shop_info.type", "=", "local")>>
    \o PriceClauses(filters)
    \o StockClauses(filters)
    \o AnyOfClauses("shop_info.name", filters.shops)
    \o AnyOfClauses("category", filters.categories)
    \o AnyOfClauses("brand", filters.brands)
    \o RatingClauses(filters.min_rating)

buildLocalFilters(filters, country) ==
       <<Clause("shop_info.type", "=", "local"),
         Clause("shop_info.country", "=", country)>>
    \o PriceClauses(filters)
    \o StockClauses(filters)
    \o AnyOfClauses("shop_info.name", filters.shops)
    \o AnyOfClauses("category", filters.categories)
    \o AnyOfClauses("brand", filters.brands)
    \o RatingClauses(filters.min_rating)

buildGlobalFilters(filters, minSellerRating) ==
       <<Clause("shop_info.type", "=", "global")>>
    \o PriceClauses(filters)
    \o StockClauses(filters)
    \o AnyOfClauses("shop_info.name", filters.shops)
    \o RatingClauses(filters.min_rating)
    \o RatingClauses(minSellerRating)

SortRule(attr, dir) == [attr |-> attr, dir |-> dir]
buildSortOrder(sortBy) ==
    CASE sortBy = "price_asc"  -> <<SortRule("pricing.base.amount", "asc")>>
      [] sortBy = "price_desc" -> <<SortRule("pricing.base.amount", "desc")>>
      [] sortBy = "rating"     -> <<SortRule("rating", "desc")>>
      [] sortBy = "newest"     -> <<SortRule("created_at", "desc")>>
      [] OTHER                 -> <<>>

\* Math.ceil(a / b) for a >= 0, b > 0
CeilDiv(a, b) == (a + b - 1) \div b

Pagination(page, totalPages, perPage, totalResults) ==
    [current_page  |-> page,
     total_pages   |-> totalPages,
     per_page      |-> perPage,
     total_results |-> totalResults,
     has_next      |-> page < totalPages,
     has_prev      |-> page > 1]

buildPaginationFloor(page, perPage, totalResults) ==
    Pagination(page, totalResults \div perPage, perPage, totalResults)

buildPagination(page, perPage, totalResults) ==
    Pagination(page, CeilDiv(totalResults, perPage), perPage, totalResults)

(***************************************************************************)
(* SearchService: landed cost, re-rank, smart-deal stub, fallback          *)
(***************************************************************************)
ShippingPercent == 10
DutyPercent == 17
ImportDutyShare == 3
VatShare == 7
EstimatedDays == 14

EstimatedInternational(basePrice, includeAllFees) ==
    LET estimatedShipping == (basePrice * ShippingPercent) \div 100
        estimatedDuties   == IF includeAllFees THEN (basePrice * DutyPercent) \div 100 ELSE 0
    IN  [shipping |-> [available |-> TRUE,
                       cost |-> estimatedShipping,
                       estimated_days |-> [standard |-> EstimatedDays]],
         fees |-> [import_duty |-> (estimatedDuties * ImportDutyShare) \div 10,
                   vat |-> (estimatedDuties * VatShare) \div 10,
                   handling |-> 0,
                   customs_clearance |-> 0],
         total_landed_cost |-> basePrice + estimatedShipping + estimatedDuties,
         risks |-> [customs_delay |-> TRUE,
                    warranty_void |-> TRUE,
                    return_difficult |-> TRUE]]

calculateTotalCostNoShipping(product, userCountry, includeAllFees) ==
    IF HasLandedCost(product) THEN product
    ELSE LET e == EstimatedInternational(product.pricing.base.amount, includeAllFees) IN
         [product EXCEPT !.pricing.international =
             Some([e EXCEPT !.total_landed_cost = @ - e.shipping.cost])]

calculateTotalCostFeesSubtracted(product, userCountry, includeAllFees) ==
    IF HasLandedCost(product) THEN product
    ELSE LET e == EstimatedInternational(product.pricing.base.amount, includeAllFees) IN
         [product EXCEPT !.pricing.international =
             Some([e EXCEPT !.total_landed_cost =
                      product.pricing.base.amount + e.shipping.cost
                      - (e.fees.import_duty + e.fees.vat)])]

calculateTotalCost(product, userCountry, includeAllFees) ==
    IF HasLandedCost(product) THEN product
    ELSE [product EXCEPT !.pricing.international =
             Some(EstimatedInternational(product.pricing.base.amount, includeAllFees))]

\* the argument object had calculateTotalCost assigned the breakdown to
\* product.pricing.international instead of spreading into a new object
calculateTotalCostArgumentInPlace(product, userCountry, includeAllFees) ==
    calculateTotalCost(product, userCountry, includeAllFees)

\* lines 1207-1248, the argument object after the call: the body reads product and
\* builds the result with object spreads, it assigns to no property of product
calculateTotalCostArgument(product, userCountry, includeAllFees) == product

\* descending obtained by reversing the ascending order
sortByTotalCostReversed(prods, descending) ==
    LET asc == SortByKeys(prods, [i \in 1..Len(prods) |-> CostKey(prods[i])])
    IN  IF descending THEN [i \in 1..Len(asc) |-> asc[Len(asc) + 1 - i]] ELSE asc

sortByTotalCost(prods, descending) ==
    SortByKeys(prods, [i \in 1..Len(prods) |->
                         IF descending THEN 0 - CostKey(prods[i]) ELSE CostKey(prods[i])])

checkSmartDeals(query, localProduct, userCountry) == Some([available |-> FALSE])

SearchResult(prods, pagination, smartDeal) ==
    [products |-> prods, pagination |-> pagination, smartDeal |-> smartDeal]

PageOf(request) == IF request.page = 0 THEN DefaultPage ELSE request.page
PerPageOf(request) == IF request.per_page = 0 THEN DefaultPerPage ELSE request.per_page

fallbackSearchLocalFirstPage(request) ==
    SearchResult(<<>>, buildPagination(DefaultPage, PerPageOf(request), 0), None)
fallbackSearchLocal(request) ==
    SearchResult(<<>>, buildPagination(PageOf(request), PerPageOf(request), 0), None)
fallbackSearchGlobal(request) ==
    SearchResult(<<>>, buildPagination(PageOf(request), PerPageOf(request), 0), None)

(***************************************************************************)
(* The search index (Meilisearch), an external collaborator:               *)
(* search(query, {filter, sort, limit, offset}) -> {hits, estimatedTotalHits} *)
(* Documents that satisfy every filter clause and match the query text,    *)
(* ordered by the sort rule (else in index order), cut to the page.        *)
(***************************************************************************)
AttrOf(doc, attr) ==
    CASE attr = "shop_info.type"      -> Some(doc.shop_info.type)
      [] attr = "shop_info.country"   -> Some(doc.shop_info.country)
      [] attr = "shop_info.name"      -> Some(doc.shop_info.name)
      [] attr = "pricing.base.amount" -> Some(doc.pricing.base.amount)
      [] attr = "availability"        -> Some(doc.availability)
      [] attr = "category"            -> doc.category
      [] attr = "brand"               -> doc.brand
      [] attr = "rating"              -> doc.rating
      [] attr = "created_at"          -> Some(doc.created_at)
      [] attr = "updated_at"          -> Some(doc.updated_at)

EvalClause(doc, c) ==
    LET a == AttrOf(doc, c.attr) IN
    /\ IsSome(a)
    /\ CASE c.op = "="     -> Get(a) = c.val
         [] c.op = ">="    -> Get(a) >= c.val
         [] c.op = "<="    -> Get(a) <= c.val
         [] c.op = "anyOf" -> \E i \in 1..Len(c.val) : c.val[i] = Get(a)

EvalFilter(doc, filter) == \A i \in 1..Len(filter) : EvalClause(doc, filter[i])

TextMatches(field, q) == IsSome(field) /\ includes(toLowerCase(Get(field)), q)
IndexMatches(doc, query) ==
    LET q == toLowerCase(trim(query)) IN
    \/ TextMatches(Some(doc.name), q)
    \/ TextMatches(doc.brand, q)
    \/ TextMatches(doc.category, q)

\* documents without the sort attribute come last
MissingLast == 1000 * 1000 * 1000
IndexSort(docs, sort) ==
    IF sort = <<>> THEN docs
    ELSE LET rule == sort[1]
             Key(d) == LET a == AttrOf(d, rule.attr) IN
                       IF ~IsSome(a) THEN MissingLast
                       ELSE IF rule.dir = "asc" THEN Get(a) ELSE 0 - Get(a)
         IN  SortByKeys(docs, [i \in 1..Len(docs) |-> Key(docs[i])])

IndexSearch(docs, query, filter, sort, limit, offset) ==
    LET Hit(d)  == EvalFilter(d, filter) /\ IndexMatches(d, query)
        matched == IndexSort(SelectSeq(docs, Hit), sort)
    IN  [hits |-> Slice(matched, offset, offset + limit),
         estimatedTotalHits |-> Len(matched)]

(***************************************************************************)
(* SearchService.searchLocal / searchGlobal on the index path, given the   *)
(* provider's answer                                                       *)
(***************************************************************************)
FiltersOf(request) ==
    IF IsSome(request.filters) THEN Get(request.filters)
    ELSE [min_price |-> None, max_price |-> None, in_stock |-> None, shops |-> None,
          categories |-> None, brands |-> None, min_rating |-> None, availability |-> None]

LocalIndexQuery(request) ==
    [query  |-> request.query,
     filter |-> buildLocalFilters(FiltersOf(request), Get(request.country)),
     sort   |-> buildSortOrder(request.sort_by),
     limit  |-> request.per_page,
     offset |-> (request.page - 1) * request.per_page]

GlobalIndexQuery(request) ==
    [query  |-> request.query,
     filter |-> buildGlobalFilters(FiltersOf(request), request.min_seller_rating),
     sort   |-> buildSortOrder(request.sort_by),
     limit  |-> request.per_page,
     offset |-> (request.page - 1) * request.per_page]

\* lines 931-952
searchLocalOnHits(request, searchResult) ==
    LET prods == searchResult.hits IN
    SearchResult(prods,
                 buildPagination(request.page, request.per_page, searchResult.estimatedTotalHits),
                 IF request.check_international /\ prods # <<>>
                   THEN checkSmartDeals(request.query, prods[1], Get(request.country))
                   ELSE None)

\* searchGlobal estimating only when both include flags are set
searchGlobalOnHitsBothFlags(request, searchResult) ==
    LET hits   == searchResult.hits
        costed == IF request.include_shipping /\ request.include_all_fees
                    THEN [i \in 1..Len(hits) |->
                            calculateTotalCost(hits[i], Get(request.user_country),
                                               request.include_all_fees)]
                    ELSE hits
        sorted == IF request.sort_by \in {"price_asc", "price_desc"}
                    THEN sortByTotalCost(costed, request.sort_by = "price_desc")
                    ELSE costed
    IN  SearchResult(sorted,
                     buildPagination(request.page, request.per_page,
                                     searchResult.estimatedTotalHits),
                     None)

\* searchGlobal without the local re-sort
searchGlobalOnHitsNoRerank(request, searchResult) ==
    LET hits   == searchResult.hits
        costed == IF request.include_shipping \/ request.include_all_fees
                    THEN [i \in 1..Len(hits) |->
                            calculateTotalCost(hits[i], Get(request.user_country),
                                               request.include_all_fees)]
                    ELSE hits
    IN  SearchResult(costed,
                     buildPagination(request.page, request.per_page,
                                     searchResult.estimatedTotalHits),
                     None)

\* lines 1011-1036
searchGlobalOnHits(request, searchResult) ==
    LET hits   == searchResult.hits
        costed == IF request.include_shipping \/ request.include_all_fees
                    THEN [i \in 1..Len(hits) |->
                            calculateTotalCost(hits[i], Get(request.user_country),
                                               request.include_all_fees)]
                    ELSE hits
        sorted == IF request.sort_by \in {"price_asc", "price_desc"}
                    THEN sortByTotalCost(costed, request.sort_by = "price_desc")
                    ELSE costed
    IN  SearchResult(sorted,
                     buildPagination(request.page, request.per_page,
                                     searchResult.estimatedTotalHits),
                     None)

(***************************************************************************)
(* MockDataService                                                         *)
(***************************************************************************)
SmartDealThreshold == 10
LocalDeliveryDays == 3

\* lines 1428-1434: the query is lower-cased, not trimmed
MockMatchesQuery(p, queryLower) ==
    \/ includes(toLowerCase(p.name), queryLower)
    \/ (IsSome(p.brand) /\ includes(toLowerCase(Get(p.brand)), queryLower))
    \/ (IsSome(p.category) /\ includes(toLowerCase(Get(p.category)), queryLower))

InArray(arr, x) == \E i \in 1..Len(arr) : arr[i] = x

\* lines 1437-1444 and 1511-1518: true when the listing passes the user filters
MockPassesFilters(p, filters) ==
    /\ ~(Truthy(filters.min_price) /\ p.pricing.base.amount < Get(filters.min_price))
    /\ ~(Truthy(filters.max_price) /\ p.pricing.base.amount > Get(filters.max_price))
    /\ ~(filters.in_stock = Some(TRUE) /\ p.availability # "in_stock")
    /\ ~(NonEmptyArray(filters.brands)
         /\ ~InArray(Get(filters.brands), IF IsSome(p.brand) THEN Get(p.brand) ELSE <<>>))
    /\ ~(NonEmptyArray(filters.shops) /\ ~InArray(Get(filters.shops), p.shop_info.name))
    /\ ~(Truthy(filters.min_rating) /\ OrElse(p.rating, 0) < Get(filters.min_rating))

NegScore(p) == 0 - (IF IsSome(p.recommendation) THEN Get(p.recommendation).score ELSE 0)

\* the reduce with currentCost <= bestCost: the last minimum wins
RECURSIVE CheapestLastWins(_, _)
CheapestLastWins(best, rest) ==
    IF rest = <<>> THEN best
    ELSE CheapestLastWins(IF CostKey(Head(rest)) <= CostKey(best) THEN Head(rest) ELSE best,
                          Tail(rest))

\* reduce((best, current) => currentCost < bestCost ? current : best)
RECURSIVE Cheapest(_, _)
Cheapest(best, rest) ==
    IF rest = <<>> THEN best
    ELSE Cheapest(IF CostKey(Head(rest)) < CostKey(best) THEN Head(rest) ELSE best, Tail(rest))

findSmartDeal(store, query, bestLocal) ==
    IF ~IsSome(bestLocal) THEN None
    ELSE
      LET local == Get(bestLocal)
          Alternative(p) == /\ p.shop_info.type = "global"
                            /\ p.product_group_id = local.product_group_id
                            /\ p.availability = "in_stock"
          globalAlternatives == SelectSeq(store, Alternative)
      IN
      IF globalAlternatives = <<>> THEN None
      ELSE
        LET cheapestGlobal == Cheapest(Head(globalAlternatives), Tail(globalAlternatives))
            localPrice  == OrElse(local.pricing.local_total, local.pricing.base.amount)
            globalPrice == CostKey(cheapestGlobal)
            savings     == localPrice - globalPrice
        IN
        \* savingsPercent = savings / localPrice * 100 < 10
        IF savings * 100 < SmartDealThreshold * localPrice THEN None
        ELSE Some([available |-> TRUE,
                   summary |->
                     [best_local |-> localPrice,
                      best_international |-> globalPrice,
                      savings |-> savings,
                      savings_percent |-> [num |-> savings * 100, den |-> localPrice],
                      delivery_difference |->
                        (IF IsSome(cheapestGlobal.pricing.international)
                              /\ Get(cheapestGlobal.pricing.international)
                                   .shipping.estimated_days.standard # 0
                           THEN Get(cheapestGlobal.pricing.international)
                                   .shipping.estimated_days.standard
                           ELSE EstimatedDays) - LocalDeliveryDays,
                      shop |-> cheapestGlobal.shop_info.name,
                      country |-> cheapestGlobal.shop_info.country],
                   product |-> cheapestGlobal])

MockPage(results, page, perPage) ==
    [results |-> Slice(results, (page - 1) * perPage, (page - 1) * perPage + perPage),
     pagination |-> Pagination(page, CeilDiv(Len(results), perPage), perPage, Len(results))]

MockSearchLocal(store, query, country, filters, page, perPage) ==
    LET queryLower == toLowerCase(query)
        Keep(p) == /\ p.shop_info.type = "local"
                   /\ p.shop_info.country = country
                   /\ MockMatchesQuery(p, queryLower)
                   /\ MockPassesFilters(p, filters)
        kept  == SelectSeq(store, Keep)
        paged == MockPage(SortByKeys(kept, [i \in 1..Len(kept) |-> NegScore(kept[i])]),
                          page, perPage)
    IN  [results |-> paged.results,
         pagination |-> paged.pagination,
         smart_deal |-> findSmartDeal(store, query,
                           IF paged.results = <<>> THEN None ELSE Some(paged.results[1]))]

MockSearchGlobal(store, query, userCountry, filters, page, perPage) ==
    LET queryLower == toLowerCase(query)
        Keep(p) == /\ p.shop_info.type = "global"
                   /\ userCountry \in p.shop_info.ships_to
                   /\ MockMatchesQuery(p, queryLower)
                   /\ MockPassesFilters(p, filters)
        kept  == SelectSeq(store, Keep)
        paged == MockPage(SortByKeys(kept, [i \in 1..Len(kept) |-> CostKey(kept[i])]),
                          page, perPage)
    IN  [results |-> paged.results, pagination |-> paged.pagination]

\* SearchService.searchLocal / searchGlobal, lines 902-916 and 980-993
searchLocalMock(store, request) ==
    LET mockResult == MockSearchLocal(store, request.query, Get(request.country),
                                      FiltersOf(request), request.page, request.per_page)
    IN  SearchResult(mockResult.results, mockResult.pagination, mockResult.smart_deal)

searchGlobalMock(store, request) ==
    LET mockResult == MockSearchGlobal(store, request.query, Get(request.user_country),
                                       FiltersOf(request), request.page, request.per_page)
    IN  SearchResult(mockResult.results, mockResult.pagination, None)

(***************************************************************************)
(* Store content                                                           *)
(***************************************************************************)
\* the texts the sample data uses, as UTF-16 code units
Str ==
    [emir    |-> <<101, 109, 105, 114>>,
     Emir    |-> <<69, 109, 105, 114, 32>>,
     zkbc    |-> <<122, 107, 98, 99>>,
     sony    |-> <<115, 111, 110, 121>>,
     bose    |-> <<98, 111, 115, 101>>,
     audio   |-> <<97, 117, 100, 105, 111>>,
     video   |-> <<118, 105, 100, 101, 111>>,
     ksp     |-> <<107, 115, 112>>,
     bestbuy |-> <<98, 101, 115, 116, 98, 117, 121>>,
     amazon  |-> <<97, 109, 97, 122, 111, 110>>,
     ebay    |-> <<101, 98, 97, 121>>]

Listing(id, group, name, brand, category, shop, type, country, shipsTo, amount, currency, international, availability, rating, score, created) ==
    [id |-> id, product_group_id |-> group, name |-> name,
     brand |-> brand, category |-> category,
     shop_info |-> [name |-> shop, type |-> type, country |-> country, ships_to |-> shipsTo],
     pricing |-> [base |-> [amount |-> amount, currency |-> currency],
                  local_total |-> None,
                  international |-> international],
     availability |-> availability, rating |-> rating,
     recommendation |-> score, created_at |-> created, updated_at |-> created]

\* an authoritative landed cost attached upstream
Precomputed(shipping, days, duty, vat, total) ==
    [shipping |-> [available |-> TRUE, cost |-> shipping, estimated_days |-> [standard |-> days]],
     fees |-> [import_duty |-> duty, vat |-> vat, handling |-> 0, customs_clearance |-> 0],
     total_landed_cost |-> total,
     risks |-> [customs_delay |-> FALSE, warranty_void |-> FALSE, return_difficult |-> FALSE]]

LocalIL  == Listing("p1", "g1", Str.emir, Some(Str.sony), Some(Str.audio), Str.ksp, "local", "IL", {},
                    Units(100), "ILS", None, "in_stock", Some(4), Some([score |-> 5]), 1)
LocalUS  == Listing("p2", "g2", Str.emir, Some(Str.sony), Some(Str.audio), Str.bestbuy, "local", "US", {},
                    Units(80), "USD", None, "in_stock", Some(5), Some([score |-> 7]), 2)
GlobalA  == Listing("p3", "g1", Str.emir, Some(Str.sony), Some(Str.audio), Str.amazon, "global", "US",
                    {"IL", "US"}, Units(70), "USD", None, "in_stock", Some(4), None, 3)
GlobalB  == Listing("p4", "g1", Str.emir, Some(Str.bose), Some(Str.video), Str.ebay, "global", "US",
                    {"IL", "US"}, Units(60), "USD",
                    Some(Precomputed(Units(5), 9, Units(3), Units(7), Units(75))),
                    "in_stock", Some(2), None, 4)
LocalIL2 == Listing("p5", "g3", Str.emir, Some(Str.bose), None, Str.ksp, "local", "IL", {},
                    Units(100), "ILS", None, "low_stock", None, None, 5)

Stores == { <<LocalIL, LocalUS, GlobalA, GlobalB, LocalIL2>>,
            <<GlobalB, LocalIL2, LocalUS, GlobalA>> }

(***************************************************************************)
(* Request bodies; the zod schemas of the two routes                       *)
(***************************************************************************)
NoFilters ==
    [min_price |-> None, max_price |-> None, in_stock |-> None, shops |-> None,
     categories |-> None, brands |-> None, min_rating |-> None, availability |-> None]

Body(kind, query, country) ==
    [kind |-> kind, query |-> query, country |-> country, filters |-> None,
     sort_by |-> None, page |-> None, per_page |-> Some(2),
     check_international |-> None, include_shipping |-> None, include_all_fees |-> None,
     min_seller_rating |-> None]

MaxQueryLen == 200
MaxPerPageAllowed == 100
MaxRating == 5
Countries == {"IL", "US", "UK", "DE", "FR"}
SortKeys == {"relevance", "price_asc", "price_desc", "rating", "newest"}

\* localSearchSchema.parse / globalSearchSchema.parse succeed
SchemaOk(body) ==
    LET OptOk(o, Ok(_)) == IF IsSome(o) THEN Ok(Get(o)) ELSE TRUE
        Positive(n)  == n > 0
        RatingOk(n)  == n >= 0 /\ n <= MaxRating
        PerPageOk(n) == n > 0 /\ n <= MaxPerPageAllowed
        SortOk(v)    == v \in SortKeys
        FiltersOk(f) == /\ OptOk(f.min_price, Positive)
                        /\ OptOk(f.max_price, Positive)
                        /\ OptOk(f.min_rating, RatingOk)
    IN  /\ Len(body.query) >= 1 /\ Len(body.query) <= MaxQueryLen
        /\ OptOk(body.filters, FiltersOk)
        /\ OptOk(body.sort_by, SortOk)
        /\ OptOk(body.page, Positive)
        /\ OptOk(body.per_page, PerPageOk)
        /\ body.country \in Countries
        /\ (body.kind = "global" => OptOk(body.min_seller_rating, RatingOk))

Default(o, d) == IF IsSome(o) THEN Get(o) ELSE d

\* the searchRequest object built from validatedBody (defaults applied by zod)
SearchRequest(body) ==
    [kind         |-> body.kind,
     query        |-> body.query,
     filters      |-> body.filters,
     sort_by      |-> Default(body.sort_by,
                              IF body.kind = "local" THEN "relevance" ELSE "price_asc"),
     page         |-> Default(body.page, DefaultPage),
     per_page     |-> Default(body.per_page, DefaultPerPage),
     country      |-> IF body.kind = "local" THEN Some(body.country) ELSE None,
     user_country |-> IF body.kind = "global" THEN Some(body.country) ELSE None,
     check_international |-> body.kind = "local" /\ Default(body.check_international, FALSE),
     include_shipping    |-> body.kind = "global" /\ Default(body.include_shipping, TRUE),
     include_all_fees    |-> body.kind = "global" /\ Default(body.include_all_fees, TRUE),
     min_seller_rating   |-> IF body.kind = "global" THEN body.min_seller_rating ELSE None]

B_LocalIL     == Body("local", Str.emir, "IL")
B_LocalUS     == Body("local", Str.zkbc, "US")
B_LocalDeal   == [B_LocalIL EXCEPT !.check_international = Some(TRUE)]
B_LocalPage2  == [B_LocalIL EXCEPT !.page = Some(2), !.per_page = Some(1)]
B_LocalUpper  == Body("local", Str.Emir, "IL")
B_Invalid     == [B_LocalIL EXCEPT !.per_page = Some(0)]
B_Inverted    == [B_LocalIL EXCEPT
                    !.filters = Some([NoFilters EXCEPT !.min_price = Some(Units(200)),
                                                       !.max_price = Some(Units(100))])]
B_GlobalPlain == Body("global", Str.emir, "IL")
B_GlobalBrand == [B_GlobalPlain EXCEPT
                    !.filters = Some([NoFilters EXCEPT !.brands = Some(<<Str.sony>>)])]
B_GlobalCat   == [B_GlobalPlain EXCEPT
                    !.filters = Some([NoFilters EXCEPT !.categories = Some(<<Str.audio>>)]),
                    !.sort_by = Some("relevance")]
B_GlobalShops == [B_GlobalPlain EXCEPT
                    !.filters = Some([NoFilters EXCEPT
                                        !.shops = Some(<<Str.ebay, Str.amazon>>),
                                        !.brands = Some(<<Str.sony, Str.bose>>),
                                        !.in_stock = Some(TRUE)])]
B_GlobalBare  == [B_GlobalPlain EXCEPT !.include_shipping = Some(FALSE),
                                       !.include_all_fees = Some(FALSE),
                                       !.min_seller_rating = Some(3)]

\* the request mixes a run draws its requests from
Workloads ==
    { {B_LocalIL, B_LocalUS, B_Invalid},
      {B_LocalDeal, B_LocalPage2},
      {B_GlobalBrand, B_GlobalCat},
      {B_GlobalPlain, B_GlobalBare},
      {B_LocalIL, B_LocalUpper},
      {B_GlobalShops},
      {B_Inverted} }

(***************************************************************************)
(* The route handlers POST /local and POST /global                         *)
(***************************************************************************)
Clients == {"c1", "c2"}
MaxRequests == 2

FiltersEcho(request) == IF IsSome(request.filters) THEN Get(request.filters) ELSE NoFilters

\* lines 222-229 and 467-473, as the JSON body sent; the query and the filters are
\* those of validatedBody, whose filters object is the one the key builder sorted
Response(request, searchResult, elapsed) ==
    [status     |-> 200,
     results    |-> searchResult.products,
     pagination |-> searchResult.pagination,
     smart_deal |-> IF request.kind = "local" THEN searchResult.smartDeal ELSE None,
     query      |-> request.query,
     filters    |-> FiltersEcho(request),
     took_ms    |-> elapsed]

BadRequest == [status |-> 400]
NoResponse == [status |-> 0]
NoRequest == [kind |-> "none"]

\* CacheService.get: the parsed value, or null when the key is absent or redis fails
CacheGet(store, key, redisOk) ==
    IF redisOk /\ key \in DOMAIN store THEN Some(store[key]) ELSE None

\* CacheService.set: redis.setex, dropped when redis fails
CacheSet(store, key, value, redisOk) ==
    IF redisOk
      THEN [k \in DOMAIN store \cup {key} |-> IF k = key THEN value ELSE store[k]]
      ELSE store

searchMock(store, request) ==
    IF request.kind = "local" THEN searchLocalMock(store, request)
    ELSE searchGlobalMock(store, request)

IndexQuery(request) ==
    IF request.kind = "local" THEN LocalIndexQuery(request) ELSE GlobalIndexQuery(request)

IndexAnswer(store, request) ==
    LET q == IndexQuery(request) IN
    IndexSearch(store, q.query, q.filter, q.sort, q.limit, q.offset)

searchOnHits(request, searchResult) ==
    IF request.kind = "local" THEN searchLocalOnHits(request, searchResult)
    ELSE searchGlobalOnHits(request, searchResult)

fallbackSearch(request) ==
    IF request.kind = "local" THEN fallbackSearchLocal(request)
    ELSE fallbackSearchGlobal(request)

Idle(c) == pc[c] \in {"idle", "done"}

\* how the awaited cacheService.get ended when it returned a value: the entry was
\* written for this request's key string, or for another one with the same hash
HitOutcome(c) ==
    IF writer[cacheKey[c]] = keyString(req[c]) THEN "get.hit" ELSE "get.collision"

\* how the awaited cacheService.get ended when it returned null
GetOutcome(redisOk) == IF redisOk THEN "get.miss" ELSE "get.error"

\* a request arrives and fails schema validation: 400
Reject(c, body) ==
    /\ Idle(c) /\ started < MaxRequests
    /\ ~SchemaOk(body)
    /\ started' = started + 1
    /\ pc' = [pc EXCEPT ![c] = "done"]
    /\ req' = [req EXCEPT ![c] = NoRequest]
    /\ cacheKey' = [cacheKey EXCEPT ![c] = <<>>]
    /\ response' = [response EXCEPT ![c] = BadRequest]
    /\ trace' = [trace EXCEPT ![c] = <<>>]
    /\ UNCHANGED <<products, useMockData, cache, workload, writer, fnCall, fnOut>>

\* a valid request arrives: the key is built and cacheService.get is awaited
Start(c, body) ==
    /\ Idle(c) /\ started < MaxRequests
    /\ SchemaOk(body)
    /\ started' = started + 1
    /\ pc' = [pc EXCEPT ![c] = "cache_get"]
    /\ req' = [req EXCEPT ![c] = SortedInPlace(SearchRequest(body))]
    /\ cacheKey' = [cacheKey EXCEPT ![c] = buildSearchCacheKey(body.kind, SearchRequest(body))]
    /\ response' = [response EXCEPT ![c] = NoResponse]
    /\ trace' = [trace EXCEPT ![c] = <<"cache.get">>]
    /\ UNCHANGED <<products, useMockData, cache, workload, writer, fnCall, fnOut>>

\* cacheService.get returned a value: it is sent with took_ms recomputed
CacheHit(c, redisOk) ==
    /\ pc[c] = "cache_get"
    /\ IsSome(CacheGet(cache, cacheKey[c], redisOk))
    /\ response' = [response EXCEPT
                      ![c] = [Get(CacheGet(cache, cacheKey[c], redisOk)) EXCEPT
                                !.took_ms = Len(trace[c])]]
    /\ trace' = [trace EXCEPT ![c] = @ \o <<HitOutcome(c)>>]
    /\ pc' = [pc EXCEPT ![c] = "done"]
    /\ UNCHANGED <<products, useMockData, cache, req, cacheKey, started,
                   workload, writer, fnCall, fnOut>>

\* cacheService.get returned null, mock mode: the mock answers synchronously,
\* the response is built and cacheService.set is awaited
CacheMissMock(c, redisOk) ==
    /\ pc[c] = "cache_get"
    /\ ~IsSome(CacheGet(cache, cacheKey[c], redisOk))
    /\ useMockData
    /\ trace' = [trace EXCEPT ![c] = @ \o <<GetOutcome(redisOk), "mock.search", "cache.set">>]
    /\ response' = [response EXCEPT
                      ![c] = Response(req[c], searchMock(products, req[c]), Len(trace[c]) + 1)]
    /\ pc' = [pc EXCEPT ![c] = "cache_set"]
    /\ UNCHANGED <<products, useMockData, cache, req, cacheKey, started,
                   workload, writer, fnCall, fnOut>>

\* cacheService.get returned null, index mode: productIndex.search is awaited
CacheMissIndex(c, redisOk) ==
    /\ pc[c] = "cache_get"
    /\ ~IsSome(CacheGet(cache, cacheKey[c], redisOk))
    /\ ~useMockData
    /\ trace' = [trace EXCEPT ![c] = @ \o <<GetOutcome(redisOk), "index.search">>]
    /\ pc' = [pc EXCEPT ![c] = "provider"]
    /\ UNCHANGED <<products, useMockData, cache, req, cacheKey, response, started,
                   workload, writer, fnCall, fnOut>>

\* the index answered: post-processing, response, cacheService.set is awaited
ProviderSuccess(c) ==
    /\ pc[c] = "provider"
    /\ trace' = [trace EXCEPT ![c] = @ \o <<"index.ok", "cache.set">>]
    /\ response' = [response EXCEPT
                      ![c] = Response(req[c], searchOnHits(req[c], IndexAnswer(products, req[c])),
                                      Len(trace[c]))]
    /\ pc' = [pc EXCEPT ![c] = "cache_set"]
    /\ UNCHANGED <<products, useMockData, cache, req, cacheKey, started,
                   workload, writer, fnCall, fnOut>>

\* the index call threw: the catch block returns the fallback result, and the
\* handler goes on to build the response and await cacheService.set
ProviderFailure(c) ==
    /\ pc[c] = "provider"
    /\ trace' = [trace EXCEPT ![c] = @ \o <<"index.error", "fallback", "cache.set">>]
    /\ response' = [response EXCEPT
                      ![c] = Response(req[c], fallbackSearch(req[c]), Len(trace[c]) + 1)]
    /\ pc' = [pc EXCEPT ![c] = "cache_set"]
    /\ UNCHANGED <<products, useMockData, cache, req, cacheKey, started,
                   workload, writer, fnCall, fnOut>>

\* the index never answers this call; the code sets no timeout on it
ProviderStall(c) ==
    /\ pc[c] = "provider"
    /\ pc' = [pc EXCEPT ![c] = "provider_stalled"]
    /\ UNCHANGED <<products, useMockData, cache, req, cacheKey, response, trace, started,
                   workload, writer, fnCall, fnOut>>

CacheSetReturnFatal(c, redisOk) ==
    /\ pc[c] = "cache_set"
    /\ cache' = cache
    /\ writer' = writer
    /\ response' = [response EXCEPT ![c] = IF redisOk THEN @ ELSE [status |-> 500]]
    /\ trace' = [trace EXCEPT ![c] = @ \o <<IF redisOk THEN "set.ok" ELSE "set.error">>]
    /\ pc' = [pc EXCEPT ![c] = "done"]
    /\ UNCHANGED <<products, useMockData, req, cacheKey, started, workload, fnCall, fnOut>>

\* cacheService.set returned: reply.send(response)
CacheSetReturn(c, redisOk) ==
    /\ pc[c] = "cache_set"
    /\ cache' = CacheSet(cache, cacheKey[c], response[c], redisOk)
    /\ trace' = [trace EXCEPT ![c] = @ \o <<IF redisOk THEN "set.ok" ELSE "set.error">>]
    /\ pc' = [pc EXCEPT ![c] = "done"]
    /\ writer' = IF redisOk
                   THEN [k \in DOMAIN writer \cup {cacheKey[c]} |->
                           IF k = cacheKey[c] THEN keyString(req[c]) ELSE writer[k]]
                   ELSE writer
    /\ UNCHANGED <<products, useMockData, req, cacheKey, response, started,
                   workload, fnCall, fnOut>>

\* a cache entry reaches its TTL
Expire(key) ==
    /\ key \in DOMAIN cache
    /\ cache' = [k \in DOMAIN cache \ {key} |-> cache[k]]
    /\ writer' = [k \in DOMAIN writer \ {key} |-> writer[k]]
    /\ UNCHANGED <<products, useMockData, pc, req, cacheKey, response, trace, started,
                   workload, fnCall, fnOut>>

HandlerStep(c) ==
    \/ \E redisOk \in BOOLEAN : CacheHit(c, redisOk)
    \/ \E redisOk \in BOOLEAN : CacheMissMock(c, redisOk)
    \/ \E redisOk \in BOOLEAN : CacheMissIndex(c, redisOk)
    \/ ProviderSuccess(c)
    \/ ProviderFailure(c)
    \/ \E redisOk \in BOOLEAN : CacheSetReturn(c, redisOk)

NoCall == [op |-> "none"]

Init ==
    /\ products \in Stores
    /\ useMockData \in BOOLEAN
    /\ workload \in Workloads
    /\ cache = <<>>
    /\ writer = <<>>
    /\ pc = [c \in Clients |-> "idle"]
    /\ req = [c \in Clients |-> NoRequest]
    /\ cacheKey = [c \in Clients |-> <<>>]
    /\ response = [c \in Clients |-> NoResponse]
    /\ trace = [c \in Clients |-> <<>>]
    /\ started = 0
    /\ fnCall = NoCall
    /\ fnOut = NoCall

Next ==
    \/ \E c \in Clients, body \in workload : Reject(c, body)
    \/ \E c \in Clients, body \in workload : Start(c, body)
    \/ \E c \in Clients : HandlerStep(c)
    \/ \E c \in Clients : ProviderStall(c)
    \/ \E key \in DOMAIN cache : Expire(key)

Spec == Init /\ [][Next]_vars

(***************************************************************************)
(* The pure operations of the services, called on their own: a behaviour   *)
(* of FnSpec makes one call and records its arguments and its result       *)
(***************************************************************************)
MaxPage == 3
MaxPerPage == 3
MaxCents == 8
MaxTotal == 7

\* every ordering of a set of strings
Orderings(S) ==
    {s \in [1..Cardinality(S) -> S] : \A i, j \in 1..Cardinality(S) : s[i] = s[j] => i = j}

BaseAmounts == {Units(1), Units(20), Units(100), Units(999)}

\* a free listing whose upstream cost breakdown is all zero
GlobalFree ==
    [GlobalB EXCEPT !.id = "p6", !.pricing.base.amount = 0,
                    !.pricing.international = Some(Precomputed(0, 9, 0, 0, 0))]

\* the Listing invariant: amounts are not negative, and an attached
\* international cost is at least the base amount
ValidCost(p) ==
    /\ p.pricing.base.amount >= 0
    /\ IsSome(p.pricing.international) =>
           Get(p.pricing.international).total_landed_cost >= p.pricing.base.amount

\* a request that carries the three multi-value filters in the given orders
KeyRequest(kind, shops, categories, brands) ==
    [SearchRequest(Body(kind, Str.emir, "IL")) EXCEPT
        !.filters = Some([NoFilters EXCEPT !.shops = Some(shops),
                                           !.categories = Some(categories),
                                           !.brands = Some(brands)])]

PagedRequest(kind, page, perPage) ==
    SearchRequest([Body(kind, Str.emir, "IL") EXCEPT !.page = Some(page),
                                                   !.per_page = Some(perPage)])

handlerVars == <<products, useMockData, cache, pc, req, cacheKey, response, trace,
                 started, workload, writer>>

\* buildSearchCacheKey on a request and on the same request with its arrays reordered
CallBuildSearchCacheKey(kind, shops, shops2, cats, cats2, brands, brands2) ==
    /\ fnCall = NoCall
    /\ fnCall' = [op |-> "buildSearchCacheKey", kind |-> kind,
                  request  |-> KeyRequest(kind, shops, cats, brands),
                  permuted |-> KeyRequest(kind, shops2, cats2, brands2)]
    /\ fnOut' = [key      |-> buildSearchCacheKey(kind, KeyRequest(kind, shops, cats, brands)),
                 permuted |-> buildSearchCacheKey(kind, KeyRequest(kind, shops2, cats2, brands2))]
    /\ UNCHANGED handlerVars

\* buildSearchCacheKey on two requests that differ in the query text only
CallBuildSearchCacheKeyOfQuery(kind, query, query2) ==
    /\ fnCall = NoCall
    /\ fnCall' = [op |-> "buildSearchCacheKey.query", kind |-> kind,
                  request  |-> [PagedRequest(kind, 1, 2) EXCEPT !.query = query],
                  respelled |-> [PagedRequest(kind, 1, 2) EXCEPT !.query = query2]]
    /\ fnOut' = [key |-> buildSearchCacheKey(kind, [PagedRequest(kind, 1, 2) EXCEPT !.query = query]),
                 respelled |-> buildSearchCacheKey(kind, [PagedRequest(kind, 1, 2) EXCEPT !.query = query2])]
    /\ UNCHANGED handlerVars

CallBuildPagination(page, perPage, totalResults) ==
    /\ fnCall = NoCall
    /\ fnCall' = [op |-> "buildPagination", page |-> page, perPage |-> perPage,
                  totalResults |-> totalResults]
    /\ fnOut' = [pagination |-> buildPagination(page, perPage, totalResults)]
    /\ UNCHANGED handlerVars

\* searchLocal / searchGlobal in mock mode
CallSearchMock(request) ==
    /\ fnCall = NoCall
    /\ fnCall' = [op |-> "searchMock", page |-> request.page, perPage |-> request.per_page,
                  request |-> request]
    /\ fnOut' = searchMock(products, request)
    /\ UNCHANGED handlerVars

\* searchLocal / searchGlobal on the index, the index answering
CallSearchIndex(request) ==
    /\ fnCall = NoCall
    /\ fnCall' = [op |-> "searchIndex", page |-> request.page, perPage |-> request.per_page,
                  request |-> request]
    /\ fnOut' = searchOnHits(request, IndexAnswer(products, request))
    /\ UNCHANGED handlerVars

\* searchLocal / searchGlobal on the index, the index throwing
CallSearchFallback(kind, page, perPage) ==
    /\ fnCall = NoCall
    /\ fnCall' = [op |-> "searchFallback", page |-> page, perPage |-> perPage,
                  request |-> PagedRequest(kind, page, perPage)]
    /\ fnOut' = fallbackSearch(PagedRequest(kind, page, perPage))
    /\ UNCHANGED handlerVars

CallCalculateTotalCost(product, base, includeAllFees) ==
    /\ fnCall = NoCall
    /\ fnCall' = [op |-> "calculateTotalCost",
                  product |-> [product EXCEPT !.pricing.base.amount = base],
                  includeAllFees |-> includeAllFees]
    /\ fnOut' = LET p == [product EXCEPT !.pricing.base.amount = base]
                     once == calculateTotalCost(p, "IL", includeAllFees)
                 IN  [product     |-> once,
                      argument    |-> calculateTotalCostArgument(p, "IL", includeAllFees),
                      twice       |-> calculateTotalCost(once, "US", ~includeAllFees),
                      withFees    |-> calculateTotalCost(p, "IL", TRUE),
                      withoutFees |-> calculateTotalCost(p, "IL", FALSE)]
    /\ UNCHANGED handlerVars

\* listings with pairwise equal cost keys: 70 (base), 75 (attached), 75 (base),
\* 70 (attached)
RankInputs ==
    {GlobalA, GlobalB,
     [GlobalA EXCEPT !.id = "p7", !.pricing.base.amount = Units(75)],
     [GlobalB EXCEPT !.id = "p8",
                     !.pricing.international =
                        Some(Precomputed(Units(5), 9, Units(2), Units(3), Units(70)))]}

CallSortByTotalCost(prods, descending) ==
    /\ fnCall = NoCall
    /\ fnCall' = [op |-> "sortByTotalCost", prods |-> prods, descending |-> descending]
    /\ fnOut' = [prods |-> sortByTotalCost(prods, descending)]
    /\ UNCHANGED handlerVars

\* packages/utils/src/price.ts: units of the currency per US dollar, in hundredths
EXCHANGE_RATES == [USD |-> 100, ILS |-> 373, EUR |-> 92, GBP |-> 79]

\* amount / rate[from] * rate[to], then Math.round(v * 100) / 100: the nearest
\* hundredth, a half going up; computed exactly on thousandths (the doubles of the
\* source agree with the exact value on every amount up to MaxCents + 1)
convertCurrency(amount, fromCurrency, toCurrency) ==
    IF fromCurrency = toCurrency THEN amount
    ELSE LET num == amount * EXCHANGE_RATES[toCurrency]
             den == 10 * EXCHANGE_RATES[fromCurrency]
         IN  10 * ((2 * num + den) \div (2 * den))

CallConvertCurrency(amount, fromCurrency, toCurrency) ==
    /\ fnCall = NoCall
    /\ fnCall' = [op |-> "convertCurrency", amount |-> amount,
                  fromCurrency |-> fromCurrency, toCurrency |-> toCurrency]
    /\ fnOut' = LET there == convertCurrency(amount, fromCurrency, toCurrency)
                IN  [there |-> there, back |-> convertCurrency(there, toCurrency, fromCurrency)]
    /\ UNCHANGED handlerVars

DealCosts == {0, Units(85), Units(90), Units(91), Units(95)}

\* a store for the detector: one local listing of group g1 at the given price and
\* two global listings (p3, p4) at the given costs, availabilities and groups
DealStore(localPrice, cost1, avail1, cost2, avail2, group2) ==
    <<[LocalIL EXCEPT !.pricing.base.amount = localPrice],
      [GlobalA EXCEPT !.pricing.base.amount = cost1, !.availability = avail1],
      [GlobalA EXCEPT !.id = "p4", !.shop_info.name = Str.ebay,
                      !.pricing.base.amount = cost2, !.availability = avail2,
                      !.product_group_id = group2]>>

CallFindSmartDeal(store, bestLocal) ==
    /\ fnCall = NoCall
    /\ fnCall' = [op |-> "findSmartDeal", store |-> store, bestLocal |-> bestLocal]
    /\ fnOut' = [deal |-> findSmartDeal(store, Str.emir, bestLocal)]
    /\ UNCHANGED handlerVars

FnInit ==
    /\ products \in Stores
    /\ useMockData = TRUE
    /\ workload = {}
    /\ cache = <<>>
    /\ writer = <<>>
    /\ pc = [c \in Clients |-> "idle"]
    /\ req = [c \in Clients |-> NoRequest]
    /\ cacheKey = [c \in Clients |-> <<>>]
    /\ response = [c \in Clients |-> NoResponse]
    /\ trace = [c \in Clients |-> <<>>]
    /\ started = 0
    /\ fnCall = NoCall
    /\ fnOut = NoCall

FnNext ==
    \/ \E kind \in {"local", "global"},
          shops, shops2 \in Orderings({Str.ksp, Str.amazon, Str.ebay}),
          cats, cats2 \in Orderings({Str.audio, Str.video}),
          brands, brands2 \in Orderings({Str.sony, Str.bose}) :
            CallBuildSearchCacheKey(kind, shops, shops2, cats, cats2, brands, brands2)
    \/ \E page \in 1..MaxPage, perPage \in 1..MaxPerPage, totalResults \in 0..MaxTotal :
            CallBuildPagination(page, perPage, totalResults)
    \/ \E kind \in {"local", "global"}, page \in 1..MaxPage, perPage \in 1..MaxPerPage,
          sortBy \in SortKeys, categories \in {None, Some(<<Str.audio>>)} :
            CallSearchMock([PagedRequest(kind, page, perPage) EXCEPT
                              !.sort_by = sortBy,
                              !.filters = IF IsSome(categories)
                                          THEN Some([NoFilters EXCEPT !.categories = categories])
                                          ELSE None])
    \/ \E kind \in {"local", "global"}, page \in 1..MaxPage, perPage \in 1..MaxPerPage,
          sortBy \in SortKeys, includeShipping, includeAllFees \in BOOLEAN :
            CallSearchIndex([PagedRequest(kind, page, perPage) EXCEPT
                               !.sort_by = sortBy,
                               !.include_shipping = (kind = "global") /\ includeShipping,
                               !.include_all_fees = (kind = "global") /\ includeAllFees])
    \/ \E kind \in {"local", "global"}, page \in 1..MaxPage, perPage \in 1..MaxPerPage :
            CallSearchFallback(kind, page, perPage)
    \/ \E product \in {GlobalA, GlobalB, GlobalFree}, base \in BaseAmounts \cup {0},
          includeAllFees \in BOOLEAN :
            /\ ValidCost([product EXCEPT !.pricing.base.amount = base])
            /\ CallCalculateTotalCost(product, base, includeAllFees)
    \/ \E prods \in Orderings(RankInputs), descending \in BOOLEAN :
            CallSortByTotalCost(prods, descending)
    \/ \E localPrice \in {0, Units(100)}, cost1, cost2 \in DealCosts,
          avail1, avail2 \in {"in_stock", "out_of_stock"}, group2 \in {"g1", "g9"},
          given \in BOOLEAN :
            LET store == DealStore(localPrice, cost1, avail1, cost2, avail2, group2)
            IN  CallFindSmartDeal(store, IF given THEN Some(store[1]) ELSE None)
    \/ \E cents \in 1..MaxCents, fromCurrency, toCurrency \in DOMAIN EXCHANGE_RATES :
            CallConvertCurrency(10 * cents, fromCurrency, toCurrency)
    \* "emir", "Emir ", " EMIR", tab "emir" newline, "e mir"
    \/ \E kind \in {"local", "global"},
          query, query2 \in {Str.emir, Str.Emir, <<32, 69, 77, 73, 82>>,
                             <<9, 101, 109, 105, 114, 10>>, <<101, 32, 109, 105, 114>>} :
            CallBuildSearchCacheKeyOfQuery(kind, query, query2)

FnSpec == FnInit /\ [][FnNext]_vars

(***************************************************************************)
(* The mock store: MockDataService.products, a Map from _id to listing,    *)
(* kept here as the sequence of its values in insertion order              *)
(***************************************************************************)
MaxBatch == 3

\* the store after seedData: one entry per listing of allMockProducts
seedData == <<LocalIL, LocalUS, GlobalA, GlobalB, LocalIL2>>

\* addProducts calling this.products.set whether or not the id is stored
RECURSIVE addProductsOverwrite(_, _)
addProductsOverwrite(store, batch) ==
    IF batch = <<>> THEN [products |-> store, added |-> 0]
    ELSE LET product == Head(batch)
             stored  == [i \in DOMAIN store |->
                           IF store[i].id = product.id THEN product ELSE store[i]]
             next    == IF \E i \in DOMAIN store : store[i].id = product.id
                          THEN stored ELSE Append(store, product)
             rest    == addProductsOverwrite(next, Tail(batch))
         IN  [products |-> rest.products, added |-> rest.added + 1]

\* lines 1372-1381: the store after the loop and the count returned
RECURSIVE addProducts(_, _)
addProducts(store, batch) ==
    IF batch = <<>> THEN [products |-> store, added |-> 0]
    ELSE LET product == Head(batch)
             has     == \E i \in DOMAIN store : store[i].id = product.id
             rest    == addProducts(IF has THEN store ELSE Append(store, product), Tail(batch))
         IN  [products |-> rest.products, added |-> rest.added + (IF has THEN 0 ELSE 1)]

\* listings offered to addProducts: a seed id with another price, the new id p6
\* with two prices, the new id p7
BatchListings ==
    {[LocalIL EXCEPT !.pricing.base.amount = Units(1)],
     [LocalIL EXCEPT !.id = "p6"],
     [LocalIL EXCEPT !.id = "p6", !.pricing.base.amount = Units(2)],
     [GlobalA EXCEPT !.id = "p7"]}

RECURSIVE Batches(_)
Batches(n) ==
    IF n = 0 THEN {<<>>}
    ELSE Batches(n - 1) \cup {Append(b, l) : b \in {x \in Batches(n - 1) : Len(x) = n - 1},
                                              l \in BatchListings}

CallAddProducts(batch) ==
    /\ fnCall' = [op |-> "addProducts", batch |-> batch]
    /\ products' = addProducts(products, batch).products
    /\ fnOut' = [added  |-> addProducts(products, batch).added,
                 before |-> products,
                 again  |-> addProducts(addProducts(products, batch).products, batch)]
    /\ UNCHANGED <<useMockData, cache, pc, req, cacheKey, response, trace, started,
                   workload, writer>>

\* lines 1386-1389: clear, then seedData
CallReset ==
    /\ fnCall' = [op |-> "reset"]
    /\ products' = seedData
    /\ fnOut' = [before |-> products]
    /\ UNCHANGED <<useMockData, cache, pc, req, cacheKey, response, trace, started,
                   workload, writer>>

\* the constructor has run seedData
StoreInit ==
    /\ products = seedData
    /\ useMockData = TRUE
    /\ workload = {}
    /\ cache = <<>>
    /\ writer = <<>>
    /\ pc = [c \in Clients |-> "idle"]
    /\ req = [c \in Clients |-> NoRequest]
    /\ cacheKey = [c \in Clients |-> <<>>]
    /\ response = [c \in Clients |-> NoResponse]
    /\ trace = [c \in Clients |-> <<>>]
    /\ started = 0
    /\ fnCall = NoCall
    /\ fnOut = NoCall

StoreNext ==
    \/ \E batch \in Batches(MaxBatch) : CallAddProducts(batch)
    \/ CallReset

StoreSpec == StoreInit /\ [][StoreNext]_vars

(***************************************************************************)
(* Properties                                                              *)
(***************************************************************************)
InTrace(c, e) == \E i \in DOMAIN trace[c] : trace[c][i] = e
Count(c, e) == Cardinality({i \in DOMAIN trace[c] : trace[c][i] = e})
Served(c) == pc[c] = "done" /\ response[c].status = 200

\* C1: a request whose index query failed (and so took the fallback) never calls
\* the cache store's set.
C1_FallbackNeverWritesCache ==
    \A c \in Clients : InTrace(c, "fallback") => ~InTrace(c, "cache.set")

\* C2: a request reads the cache exactly once and first; a hit queries no provider
\* and writes nothing; the cache is written at most once, and only after a miss
\* followed by a successful provider query.
C2_CacheDiscipline ==
    \A c \in Clients : trace[c] # <<>> =>
        /\ trace[c][1] = "cache.get"
        /\ Count(c, "cache.get") = 1
        /\ Count(c, "cache.set") <= 1
        /\ (InTrace(c, "get.hit") \/ InTrace(c, "get.collision")) =>
              /\ ~InTrace(c, "index.search")
              /\ ~InTrace(c, "mock.search")
              /\ ~InTrace(c, "cache.set")
        /\ InTrace(c, "cache.set") =>
              /\ InTrace(c, "get.miss") \/ InTrace(c, "get.error")
              /\ InTrace(c, "index.ok") \/ InTrace(c, "mock.search")

\* C3: when the index query throws, the request is answered normally with the
\* fallback result: no listings, total_results 0, total_pages 0, has_next false,
\* current_page the requested page.
C3_ProviderFailureYieldsEmptyPage ==
    \A c \in Clients : InTrace(c, "fallback") =>
        /\ response[c].status = 200
        /\ response[c].results = <<>>
        /\ response[c].pagination.total_results = 0
        /\ response[c].pagination.total_pages = 0
        /\ response[c].pagination.has_next = FALSE
        /\ response[c].pagination.current_page = req[c].page

C3_Witness ==
    \E c \in Clients :
        /\ pc[c] = "done" /\ InTrace(c, "fallback")
        /\ req[c].page = 2 /\ response[c].pagination.current_page = 2

\* what the provider path of the request computes, whatever the cache does
FreshResult(c) ==
    IF InTrace(c, "mock.search") THEN searchMock(products, req[c])
    ELSE IF InTrace(c, "index.ok") THEN searchOnHits(req[c], IndexAnswer(products, req[c]))
    ELSE fallbackSearch(req[c])

\* C4: a failing cache get is followed by the provider query as a miss is, a
\* failing cache set is dropped, and in both cases the request is answered without
\* error with the listings and the pagination the provider path computes.
C4_CacheFailuresNonFatal ==
    \A c \in Clients :
        /\ InTrace(c, "get.error") => trace[c][3] \in {"mock.search", "index.search"}
        /\ (pc[c] = "done" /\ (InTrace(c, "get.error") \/ InTrace(c, "set.error"))) =>
              /\ response[c].status = 200
              /\ response[c].results = FreshResult(c).products
              /\ response[c].pagination = FreshResult(c).pagination

C4_Witness ==
    \E c \in Clients :
        /\ pc[c] = "done"
        /\ InTrace(c, "get.error") /\ InTrace(c, "set.error")
        /\ response[c].status = 200 /\ response[c].results # <<>>

\* C5: a request whose index query never answers can still take a step (the
\* timeout that sends it down the fallback path).
C5_StalledProviderTimesOut ==
    \A c \in Clients : pc[c] = "provider_stalled" => ENABLED HandlerStep(c)

LocalOnly(c) ==
    \A i \in DOMAIN response[c].results :
        /\ response[c].results[i].shop_info.type = "local"
        /\ response[c].results[i].shop_info.country = Get(req[c].country)

\* C8 as stated: on every path, cache hits included, every listing returned to a
\* local search for country C is local and of country C.
C8_LocalResultsMatchCountry ==
    \A c \in Clients : (Served(c) /\ req[c].kind = "local") => LocalOnly(c)

\* C8 amended: every listing returned to a local search for country C is local and
\* of country C on the index, mock and fallback paths and on a cache hit whose
\* entry was written for the same key string; a hit on an entry written for another
\* key string with the same hash is excepted.
C8_LocalResultsMatchCountryExceptCollisions ==
    \A c \in Clients :
        (Served(c) /\ req[c].kind = "local" /\ ~InTrace(c, "get.collision")) => LocalOnly(c)

C8_Witness ==
    \E c \in Clients :
        /\ Served(c) /\ req[c].kind = "local"
        /\ InTrace(c, "get.hit")
        /\ response[c].results # <<>>
        /\ LocalOnly(c)

AllowListed(o, allow) == ~NonEmptyArray(allow) \/ (IsSome(o) /\ InArray(Get(allow), Get(o)))

\* C9: every listing a global search returns is global and passes the brands and
\* the categories allow-list of the request when one is present.
C9_GlobalAllowListsApplied ==
    \A c \in Clients :
        (Served(c) /\ req[c].kind = "global" /\ ~InTrace(c, "get.collision")) =>
            \A i \in DOMAIN response[c].results :
                /\ response[c].results[i].shop_info.type = "global"
                /\ AllowListed(response[c].results[i].brand, FiltersOf(req[c]).brands)
                /\ AllowListed(response[c].results[i].category, FiltersOf(req[c]).categories)

\* C6: the key of a request equals the key of the same request with its shops,
\* categories and brands arrays in any other order, for both kinds.
C6_KeyOrderIndependent ==
    fnCall.op = "buildSearchCacheKey" => fnOut.key = fnOut.permuted

C6_Witness ==
    /\ fnCall.op = "buildSearchCacheKey"
    /\ Get(fnCall.request.filters).shops # Get(fnCall.permuted.filters).shops
    /\ Get(fnCall.request.filters).brands # Get(fnCall.permuted.filters).brands
    /\ fnOut.key = fnOut.permuted

PaginationOps == {"buildPagination", "searchMock", "searchIndex", "searchFallback"}

\* C7: the pagination built by buildPagination, by the index path, by the fallback
\* path and by the mock path has total_pages = ceil(T/P) (the least n with
\* n * P >= T), has_next = (page < total_pages) and has_prev = (page > 1).
C7_PaginationConsistent ==
    fnCall.op \in PaginationOps =>
        LET p == fnOut.pagination IN
        /\ p.current_page = fnCall.page
        /\ p.per_page = fnCall.perPage
        /\ fnCall.op = "buildPagination" => p.total_results = fnCall.totalResults
        /\ fnCall.op = "searchFallback" => p.total_results = 0
        /\ p.total_pages * p.per_page >= p.total_results
        /\ (p.total_pages - 1) * p.per_page < p.total_results
        /\ p.has_next = (p.current_page < p.total_pages)
        /\ p.has_prev = (p.current_page > 1)

C7_Witness ==
    /\ fnCall.op = "buildPagination"
    /\ fnCall.page = 2 /\ fnCall.perPage = 3 /\ fnCall.totalResults = 7
    /\ fnOut.pagination.total_pages = 3
    /\ fnOut.pagination.has_next /\ fnOut.pagination.has_prev

\* C10: for a listing without a precomputed landed cost the estimate is shipping
\* 10% of base, a duty/VAT pool of 17% of base when fees are included and 0
\* otherwise, import duty 30% and VAT 70% of the pool, handling and customs
\* clearance 0, total base + shipping + pool; base 100 with fees gives 127.
C10_LandedCostEstimate ==
    (fnCall.op = "calculateTotalCost" /\ ~HasLandedCost(fnCall.product)) =>
        LET base == fnCall.product.pricing.base.amount
            intl == Get(fnOut.product.pricing.international)
            pool == intl.fees.import_duty + intl.fees.vat
        IN  /\ 10 * intl.shipping.cost = base
            /\ 100 * pool = IF fnCall.includeAllFees THEN 17 * base ELSE 0
            /\ 10 * intl.fees.import_duty = 3 * pool
            /\ 10 * intl.fees.vat = 7 * pool
            /\ intl.fees.handling = 0
            /\ intl.fees.customs_clearance = 0
            /\ intl.total_landed_cost = base + intl.shipping.cost + pool
            /\ (base = Units(100) /\ fnCall.includeAllFees) =>
                   intl.total_landed_cost = Units(127)
            /\ ~fnCall.includeAllFees => 10 * intl.total_landed_cost = 11 * base

C10_Witness ==
    /\ fnCall.op = "calculateTotalCost"
    /\ ~HasLandedCost(fnCall.product)
    /\ fnCall.product.pricing.base.amount = Units(100)
    /\ fnCall.includeAllFees
    /\ Get(fnOut.product.pricing.international).total_landed_cost = Units(127)

\* C11: a listing whose international cost is already set, whatever its value,
\* comes back from calculateTotalCost with that breakdown unchanged.
C11_SetCostReturnedUnchanged ==
    (fnCall.op = "calculateTotalCost" /\ IsSome(fnCall.product.pricing.international)) =>
        fnOut.product.pricing.international = fnCall.product.pricing.international

PositionOf(prods, id) == CHOOSE i \in 1..Len(prods) : prods[i].id = id

\* C13: sortByTotalCost returns the same listings ordered by cost key, ascending
\* or descending, and listings with equal cost keys keep the relative order they
\* had in the input.
C13_RerankStable ==
    fnCall.op = "sortByTotalCost" =>
        LET in  == fnCall.prods
            out == fnOut.prods
        IN  /\ Len(out) = Len(in)
            /\ \A i \in 1..Len(in) : \E j \in 1..Len(out) : out[j] = in[i]
            /\ \A i, j \in 1..Len(out) : i < j =>
                  /\ IF fnCall.descending THEN CostKey(out[i]) >= CostKey(out[j])
                                          ELSE CostKey(out[i]) <= CostKey(out[j])
                  /\ CostKey(out[i]) = CostKey(out[j]) =>
                        PositionOf(in, out[i].id) < PositionOf(in, out[j].id)

C13_Witness ==
    /\ fnCall.op = "sortByTotalCost" /\ fnCall.descending
    /\ fnCall.prods[1].id = "p8" /\ fnCall.prods[2].id = "p4"
    /\ fnCall.prods[3].id = "p3" /\ fnCall.prods[4].id = "p7"
    /\ fnOut.prods[1].id = "p4" /\ fnOut.prods[2].id = "p7"
    /\ fnOut.prods[3].id = "p8" /\ fnOut.prods[4].id = "p3"

\* the in-stock global listings of the store in the product group of the listing
DealAlternatives(store, local) ==
    {i \in 1..Len(store) : /\ store[i].shop_info.type = "global"
                           /\ store[i].product_group_id = local.product_group_id
                           /\ store[i].availability = "in_stock"}

\* C14: the detector returns a populated deal exactly when an in-stock global
\* alternative of the same product group exists and the savings percent
\* (local price - cheapest global total) / local price * 100 is at least 10 (a
\* percent of a zero local price is no number, so it is not at least 10); local
\* 100 against global 95 gives no deal, local 100 against global 85 gives a deal
\* with savings_percent 15, savings 15, best_local 100, best_international 85.
C14_DealIffSavingsAtLeastTenPercent ==
    (fnCall.op = "findSmartDeal" /\ IsSome(fnCall.bestLocal)) =>
        LET local == Get(fnCall.bestLocal)
            alts  == DealAlternatives(fnCall.store, local)
            price == local.pricing.base.amount
            Cost(i) == fnCall.store[i].pricing.base.amount
            cheapest == CHOOSE i \in alts : \A j \in alts : Cost(i) <= Cost(j)
        IN  /\ IsSome(fnOut.deal) <=>
                  /\ alts # {}
                  /\ price > 0
                  /\ (price - Cost(cheapest)) * 100 >= 10 * price
            /\ (IsSome(fnOut.deal) /\ price = Units(100) /\ Cost(cheapest) = Units(85)) =>
                  /\ Get(fnOut.deal).summary.savings_percent.num
                        = 15 * Get(fnOut.deal).summary.savings_percent.den
                  /\ Get(fnOut.deal).summary.savings = Units(15)
                  /\ Get(fnOut.deal).summary.best_local = Units(100)
                  /\ Get(fnOut.deal).summary.best_international = Units(85)

\* C15: a local search that did not request check_international (absent or false)
\* never carries a smart deal in its response, on the mock, index, fallback and
\* cache-hit paths alike.
C15_NoDealUnlessRequested ==
    \A c \in Clients :
        (Served(c) /\ req[c].kind = "local" /\ ~req[c].check_international) =>
            ~IsSome(response[c].smart_deal)

\* C16: for every pair of supported currencies (A, B) and every positive amount x
\* of two decimals, converting x from A to B and back gives an amount within 0.01
\* of x, and converting x from A to A gives x exactly.
C16_CurrencyRoundTrip ==
    fnCall.op = "convertCurrency" =>
        /\ fnOut.back - fnCall.amount <= 10
        /\ fnCall.amount - fnOut.back <= 10
        /\ fnCall.fromCurrency = fnCall.toCurrency => fnOut.there = fnCall.amount

\* C17: a request whose filters carry both min_price and max_price with
\* min_price > max_price is answered 400 by validation and never reaches the cache
\* lookup or the search service.
C17_InvertedPriceRangeRejected ==
    \A c \in Clients :
        InTrace(c, "cache.get") =>
            ~ /\ IsSome(req[c].filters)
              /\ IsSome(Get(req[c].filters).min_price)
              /\ IsSome(Get(req[c].filters).max_price)
              /\ Get(Get(req[c].filters).min_price) > Get(Get(req[c].filters).max_price)

\* C18: for the same stored listings and the same request the mock provider and
\* the index provider return the same listings in the same order with the same
\* pagination.
C18_MockMatchesIndex ==
    fnCall.op = "searchMock" =>
        LET onIndex == searchOnHits(fnCall.request, IndexAnswer(products, fnCall.request))
        IN  /\ fnOut.products = onIndex.products
            /\ fnOut.pagination = onIndex.pagination

\* C19: every search response, a response served from the cache included, echoes
\* the query text and the filters of the request it answers.
C19_ResponseEchoesRequest ==
    \A c \in Clients :
        Served(c) => /\ response[c].query = req[c].query
                     /\ response[c].filters = FiltersEcho(req[c])

\* C20: when two identical requests run concurrently, both having missed the cache
\* and both awaiting cacheService.set, the values they write under their shared
\* key are the same apart from took_ms, whatever the provider answered to each.
C20_DuplicateWritesAgree ==
    \A c1, c2 \in Clients :
        (pc[c1] = "cache_set" /\ pc[c2] = "cache_set" /\ req[c1] = req[c2]) =>
            [response[c1] EXCEPT !.took_ms = 0] = [response[c2] EXCEPT !.took_ms = 0]

IdsOf(prods) == [i \in DOMAIN prods |-> prods[i].id]

\* C21: for a price-sorted global search on the index path the response holds
\* exactly the hits of the page the index returned, ordered by cost key
\* (total_landed_cost, else base amount) non-decreasing for price_asc and
\* non-increasing for price_desc, and the pagination total is the index's
\* estimated total.
C21_RerankPermutesPage ==
    (/\ fnCall.op = "searchIndex" /\ fnCall.request.kind = "global"
     /\ fnCall.request.sort_by \in {"price_asc", "price_desc"}) =>
        LET answer == IndexAnswer(products, fnCall.request)
            out    == fnOut.products
        IN  /\ Len(out) = Len(answer.hits)
            /\ \A i \in DOMAIN answer.hits :
                  Cardinality({j \in DOMAIN out : out[j].id = answer.hits[i].id}) = 1
            /\ \A i, j \in DOMAIN out :
                  i < j => IF fnCall.request.sort_by = "price_asc"
                             THEN CostKey(out[i]) <= CostKey(out[j])
                             ELSE CostKey(out[i]) >= CostKey(out[j])
            /\ fnOut.pagination.total_results = answer.estimatedTotalHits
            /\ fnOut.pagination.current_page = fnCall.request.page

\* the re-rank moved a hit: the index returned p4 before p3, the response has p3 first
C21_Witness ==
    /\ fnCall.op = "searchIndex" /\ fnCall.request.kind = "global"
    /\ fnCall.request.sort_by = "price_asc"
    /\ IdsOf(IndexAnswer(products, fnCall.request).hits) = <<"p4", "p3">>
    /\ IdsOf(fnOut.products) = <<"p3", "p4">>

\* C22: the listing the detector recommends is a global, in-stock listing of the
\* product group of the local listing, its cost key (total_landed_cost, else base
\* amount) is minimal among all such listings, and among those of minimal cost it
\* is the first in scan order; without a local listing or without such a listing
\* the detector returns absent.
C22_DealPicksFirstCheapest ==
    fnCall.op = "findSmartDeal" =>
        IF ~IsSome(fnCall.bestLocal) THEN ~IsSome(fnOut.deal)
        ELSE LET alts == DealAlternatives(fnCall.store, Get(fnCall.bestLocal))
                 Minimal(i) == \A j \in alts : CostKey(fnCall.store[i]) <= CostKey(fnCall.store[j])
             IN  /\ alts = {} => ~IsSome(fnOut.deal)
                 /\ IsSome(fnOut.deal) =>
                       \E i \in alts :
                           /\ Get(fnOut.deal).product = fnCall.store[i]
                           /\ Minimal(i)
                           /\ \A j \in alts : Minimal(j) => i <= j

\* two in-stock candidates of the group at the same cost: the first one is recommended
C22_Witness ==
    /\ fnCall.op = "findSmartDeal" /\ IsSome(fnCall.bestLocal) /\ IsSome(fnOut.deal)
    /\ DealAlternatives(fnCall.store, Get(fnCall.bestLocal)) = {2, 3}
    /\ CostKey(fnCall.store[2]) = CostKey(fnCall.store[3])
    /\ Get(fnOut.deal).product.id = "p3"

\* C23: when the local listing and the recommended global listing are priced in
\* different currencies, the savings of the deal are the difference of the two
\* prices expressed in one common currency.
C23_DealComparesInOneCurrency ==
    (fnCall.op = "findSmartDeal" /\ IsSome(fnOut.deal)) =>
        LET local  == Get(fnCall.bestLocal)
            chosen == Get(fnOut.deal).product
            from   == local.pricing.base.currency
            to     == chosen.pricing.base.currency
        IN  from # to =>
              \E common \in DOMAIN EXCHANGE_RATES :
                  Get(fnOut.deal).summary.savings =
                      convertCurrency(OrElse(local.pricing.local_total,
                                             local.pricing.base.amount), from, common)
                      - convertCurrency(CostKey(chosen), to, common)

\* C24: calculateTotalCost leaves its argument listing, pricing included, as it
\* was; the listing it returns differs from the argument at most in
\* pricing.international.
C24_LandedCostLeavesListingAlone ==
    fnCall.op = "calculateTotalCost" =>
        /\ fnOut.argument = fnCall.product
        /\ [fnOut.product EXCEPT !.pricing.international = fnCall.product.pricing.international]
              = fnCall.product

\* an estimate was attached: the result carries a breakdown the argument lacks
C24_Witness ==
    /\ fnCall.op = "calculateTotalCost"
    /\ ~IsSome(fnCall.product.pricing.international)
    /\ IsSome(fnOut.product.pricing.international)
    /\ ~IsSome(fnOut.argument.pricing.international)

\* a is b up to the case of its letters and to white space at its two ends
SameQueryText(a, b) ==
    \E i \in 1..Len(a) + 1, j \in 1..Len(b) + 1, n \in 0..Len(a) :
        /\ i + n - 1 <= Len(a) /\ j + n - 1 <= Len(b)
        /\ \A k \in 1..Len(a) : (k < i \/ k >= i + n) => IsSpace(a[k])
        /\ \A k \in 1..Len(b) : (k < j \/ k >= j + n) => IsSpace(b[k])
        /\ \A k \in 0..n - 1 :
              \/ a[i + k] = b[j + k]
              \/ (a[i + k] \in 65..90 /\ b[j + k] = a[i + k] + 32)
              \/ (b[j + k] \in 65..90 /\ a[i + k] = b[j + k] + 32)

\* C25: two requests of the same kind that differ only in the letter case of the
\* query or in white space at the ends of the query get the same cache key.
C25_KeyIgnoresCaseAndOuterSpace ==
    (/\ fnCall.op = "buildSearchCacheKey.query"
     /\ SameQueryText(fnCall.request.query, fnCall.respelled.query)) =>
        fnOut.key = fnOut.respelled

\* " EMIR" and "Emir " get one key
C25_Witness ==
    /\ fnCall.op = "buildSearchCacheKey.query"
    /\ fnCall.request.query = <<32, 69, 77, 73, 82>>
    /\ fnCall.respelled.query = Str.Emir
    /\ fnOut.key = fnOut.respelled

\* C26: the sort instruction sent to the index is empty for relevance, base price
\* amount ascending / descending for price_asc / price_desc, rating descending for
\* rating, and the update timestamp descending for newest.
C26_SortInstruction ==
    fnCall.op = "searchIndex" =>
        IndexQuery(fnCall.request).sort =
            CASE fnCall.request.sort_by = "relevance"  -> <<>>
              [] fnCall.request.sort_by = "price_asc"  -> <<SortRule("pricing.base.amount", "asc")>>
              [] fnCall.request.sort_by = "price_desc" -> <<SortRule("pricing.base.amount", "desc")>>
              [] fnCall.request.sort_by = "rating"     -> <<SortRule("rating", "desc")>>
              [] fnCall.request.sort_by = "newest"     -> <<SortRule("updated_at", "desc")>>

\* C27: two requests of the same kind whose key strings (before hashing) are equal
\* agree on check_international, include_shipping, include_all_fees,
\* min_seller_rating and the availability filter.
C27_KeyCoversResultParameters ==
    \A c1, c2 \in Clients :
        (/\ InTrace(c1, "cache.get") /\ InTrace(c2, "cache.get")
         /\ req[c1].kind = req[c2].kind
         /\ keyString(req[c1]) = keyString(req[c2])) =>
            /\ req[c1].check_international = req[c2].check_international
            /\ req[c1].include_shipping = req[c2].include_shipping
            /\ req[c1].include_all_fees = req[c2].include_all_fees
            /\ req[c1].min_seller_rating = req[c2].min_seller_rating
            /\ FiltersOf(req[c1]).availability = FiltersOf(req[c2]).availability

\* b holds the elements of a in lexicographic (code unit) order
SortedCopyOf(a, b) ==
    IF ~IsSome(a) THEN b = a
    ELSE /\ IsSome(b) /\ Len(Get(b)) = Len(Get(a))
         /\ {Get(b)[i] : i \in DOMAIN Get(b)} = {Get(a)[i] : i \in DOMAIN Get(a)}
         /\ \A i, j \in DOMAIN Get(b) : i < j => ~StrLess(Get(b)[j], Get(b)[i])

\* the request of client c is the request built from body, changed by the key
\* builder in the three arrays only, which are sorted
KeyBuilderFrame(c, body) ==
    LET before == SearchRequest(body)
        after  == req[c]
    IN  /\ [after EXCEPT !.filters = None] = [before EXCEPT !.filters = None]
        /\ IsSome(after.filters) = IsSome(before.filters)
        /\ IsSome(before.filters) =>
              LET f == Get(before.filters)
                  g == Get(after.filters)
              IN  /\ [g EXCEPT !.shops = None, !.categories = None, !.brands = None]
                       = [f EXCEPT !.shops = None, !.categories = None, !.brands = None]
                  /\ SortedCopyOf(f.shops, g.shops)
                  /\ SortedCopyOf(f.categories, g.categories)
                  /\ SortedCopyOf(f.brands, g.brands)

\* C28: buildSearchCacheKey changes the request only by sorting filters.shops,
\* filters.categories and filters.brands in place (same elements, lexicographic
\* order), and a response built from a provider answer echoes the sorted filters.
C28_KeyBuilderSortsArraysOnly ==
    \A c \in Clients :
        InTrace(c, "cache.get") =>
            /\ \E body \in workload : SchemaOk(body) /\ KeyBuilderFrame(c, body)
            /\ (Served(c) /\ ~InTrace(c, "get.hit") /\ ~InTrace(c, "get.collision")) =>
                  response[c].filters = FiltersEcho(req[c])

\* a request sent with shops [ebay, amazon] is answered with filters.shops [amazon, ebay]
C28_Witness ==
    \E c \in Clients :
        /\ Served(c) /\ ~InTrace(c, "get.hit") /\ ~InTrace(c, "get.collision")
        /\ B_GlobalShops \in workload
        /\ response[c].filters.shops = Some(<<Str.amazon, Str.ebay>>)
        /\ response[c].filters.brands = Some(<<Str.bose, Str.sony>>)

\* C29: on the index path of searchGlobal a hit without a landed cost comes back
\* with an estimated breakdown (shipping 10% of the base amount, available,
\* counted in the total, 14 days, the three risk flags true) exactly when
\* include_shipping or include_all_fees is true; when both are false every hit
\* comes back as the index returned it.
C29_EstimateIffIncludeFlag ==
    (fnCall.op = "searchIndex" /\ fnCall.request.kind = "global") =>
        LET hits  == IndexAnswer(products, fnCall.request).hits
            wants == fnCall.request.include_shipping \/ fnCall.request.include_all_fees
        IN  \A i \in DOMAIN hits :
              \E j \in DOMAIN fnOut.products :
                LET hit == hits[i]
                    out == fnOut.products[j]
                IN  /\ out.id = hit.id
                    /\ ~wants => out = hit
                    /\ ~HasLandedCost(hit) =>
                          /\ IsSome(out.pricing.international) <=> wants
                          /\ wants =>
                               LET e == Get(out.pricing.international) IN
                               /\ e.shipping.available
                               /\ e.shipping.cost * 100 = hit.pricing.base.amount * ShippingPercent
                               /\ e.total_landed_cost >= hit.pricing.base.amount + e.shipping.cost
                               /\ e.shipping.estimated_days.standard = EstimatedDays
                               /\ e.risks.customs_delay /\ e.risks.warranty_void
                               /\ e.risks.return_difficult

\* include_shipping alone: p3, sent by the index without a breakdown, is estimated
C29_Witness ==
    /\ fnCall.op = "searchIndex" /\ fnCall.request.kind = "global"
    /\ fnCall.request.include_shipping /\ ~fnCall.request.include_all_fees
    /\ \E j \in DOMAIN fnOut.products :
          /\ fnOut.products[j].id = "p3"
          /\ IsSome(fnOut.products[j].pricing.international)
          /\ Get(fnOut.products[j].pricing.international).total_landed_cost = Units(77)

\* C30: addProducts leaves every stored listing as it was and in its place, adds
\* each id of the batch that was not stored once (the first listing of the batch
\* with that id), and returns the number of listings it added; the same call made
\* again returns 0 and changes nothing; after reset the store is the seed.
C30_StoreAddAndReset ==
    /\ fnCall.op = "addProducts" =>
          LET before == fnOut.before
              batch  == fnCall.batch
              Stored(id) == \E i \in DOMAIN before : before[i].id = id
          IN  /\ Len(products) >= Len(before)
              /\ \A i \in DOMAIN before : products[i] = before[i]
              /\ fnOut.added = Len(products) - Len(before)
              /\ \A i, j \in DOMAIN products : products[i].id = products[j].id => i = j
              /\ \A k \in DOMAIN batch : \E i \in DOMAIN products : products[i].id = batch[k].id
              /\ \A i \in DOMAIN products :
                    i > Len(before) =>
                       \E k \in DOMAIN batch :
                           /\ batch[k] = products[i]
                           /\ \A m \in 1..k - 1 : batch[m].id # batch[k].id
              /\ fnOut.again = [products |-> products, added |-> 0]
    /\ fnCall.op = "reset" => products = seedData

\* a batch holding a stored id and the new id p6 twice: one listing is added, the
\* first p6, and the stored p1 keeps its price
C30_Witness ==
    /\ fnCall.op = "addProducts" /\ Len(fnCall.batch) = 3
    /\ fnCall.batch[1].id = "p1" /\ fnCall.batch[1] # LocalIL
    /\ fnCall.batch[2].id = "p6" /\ fnCall.batch[3].id = "p6"
    /\ fnCall.batch[2] # fnCall.batch[3]
    /\ fnOut.before = seedData
    /\ fnOut.added = 1
    /\ products = Append(seedData, fnCall.batch[2])

====
